---- MODULE Spec2Model ----
(***************************************************************************)
(* Model of src/final_gst.py: the EcommerceAnalyzer class (loaders,         *)
(* per-platform analyzers, cross-platform comparison) and the render        *)
(* pipeline main() that drives it once per page interaction.                *)
(*                                                                          *)
(* Numeric cells (amounts, quantities) are integers in thousandths, so that *)
(* round(2) is a real conversion (to a multiple of 10).  A pandas table is a record       *)
(* [columns, rows, datetime]: the set of column labels, the sequence of     *)
(* rows (functions from column label to cell) and the set of columns that   *)
(* pd.to_datetime has converted.  Missing cells are "NaN" / "NaT".          *)
(***************************************************************************)
EXTENDS Integers, Sequences, FiniteSets, TLC

VARIABLES
    files,            \* what the four st.sidebar.file_uploader widgets return
    analyzer,         \* the EcommerceAnalyzer instance: its four table fields
    data_loaded,      \* main's local flag
    pc,               \* position in main()
    messages,         \* st.error / st.warning / st.info texts shown so far
    calls,            \* results of the analyzer calls made so far, in order
    comparisons,      \* main's local `comparisons` (last create_comparison_dashboard)
    meesho_analysis,  \* main's local `meesho_analysis` (Meesho tab)
    amazon_analysis,  \* main's local `amazon_analysis` (Amazon tab)
    rendered,         \* what the tabs have computed and drawn so far
    unhandled         \* the exception that escaped main(), or "none"

vars == <<files, analyzer, data_loaded, pc, messages, calls, comparisons,
          meesho_analysis, amazon_analysis, rendered, unhandled>>

----------------------------------------------------------------------------
(* Bounds of the model *)

\* rows per Meesho / Amazon table when the analyzers are exercised alone
MaxMeeshoRows == 3
MaxAmazonRows == 3
\* rows per table in a full render
MaxRenderRows == 1

----------------------------------------------------------------------------
(* Values *)

None == [kind |-> "None"]          \* Python None
NaN  == "NaN"                      \* missing cell (read_csv's NaN)
NaT  == "NaT"                      \* missing date (to_datetime's NaT)

RECURSIVE SeqSum(_)
SeqSum(s) == IF s = <<>> THEN 0 ELSE Head(s) + SeqSum(Tail(s))

SeqsUpTo(S, n) == UNION {[1..k -> S] : k \in 0..n}

Restrict(f, D) == [x \in D |-> f[x]]

\* A Python/numpy number: numpy is FALSE for a plain Python int.  The sum of
\* a column of a table with no rows is the Python int 0 (read_csv gives such
\* a column dtype object); the sum of a populated numeric column is a numpy
\* scalar.
Number(v, np) == [val |-> v, numpy |-> np]

\* DataFrame.round(2) on an amount in thousandths: the nearest multiple of
\* 10, a tie going to the even hundredth (numpy's rint).
Round2(x) ==
    LET q == x \div 10
        r == x % 10
    IN  IF r < 5 THEN 10 * q
        ELSE IF r > 5 THEN 10 * (q + 1)
        ELSE IF q % 2 = 0 THEN 10 * q ELSE 10 * (q + 1)

\* pd.to_datetime(..., errors='coerce') on one cell: an unparseable or
\* missing value becomes NaT, a date stays that date.
ToDatetime(cell) ==
    IF cell \in {"2024-01-15", "2024-02-03"} THEN cell ELSE NaT

\* Series.dt.to_period('M') on one cell: the date truncated to its month.
ToPeriodM(d) ==
    CASE d = "2024-01-15" -> "2024-01"
      [] d = "2024-02-03" -> "2024-02"
      [] OTHER -> NaT

----------------------------------------------------------------------------
(* Tables *)

Table(cols, rws, dt) == [columns |-> cols, rows |-> rws, datetime |-> dt]

\* len(df)
Length(t) == Len(t.rows)

\* df.empty never true: the emptiness test left out.
EmptyNever(t) == FALSE

\* df.empty
Empty(t) == t.rows = <<>>

\* df[col].sum(): Python int 0 for a table with no rows, a numpy scalar
\* otherwise.
ColumnSum(t, col) ==
    Number(SeqSum([i \in 1..Len(t.rows) |-> t.rows[i][col]]), t.rows # <<>>)

\* Filter with the comparison on the transaction type lost: every row of
\* the table passes.
FilterUnfiltered(t, col, value) == t

\* df[df[col] == value]: the rows whose cell is exactly value (a copy).
Filter(t, col, value) ==
    [t EXCEPT !.rows = SelectSeq(t.rows, LAMBDA r : r[col] = value)]

\* The group keys df.groupby(key) produces: the distinct values of the key
\* column, rows with a missing key left out (groupby's default dropna=True).
GroupKeys(t, key) ==
    {t.rows[i][key] : i \in 1..Len(t.rows)} \ {NaN, NaT}

\* df.groupby(key).agg({c: 'sum' for c in sumcols}).round(2)
GroupBySum(t, key, sumcols) ==
    [k \in GroupKeys(t, key) |->
        [c \in sumcols |-> Round2(ColumnSum(Filter(t, key, k), c).val)]]

\* df['month'] = df[datecol].dt.to_period('M')
WithMonth(t, datecol) ==
    [t EXCEPT !.columns = @ \cup {"month"},
              !.rows = [i \in 1..Len(t.rows) |->
                          [c \in (DOMAIN t.rows[i]) \cup {"month"} |->
                              IF c = "month" THEN ToPeriodM(t.rows[i][datecol])
                              ELSE t.rows[i][c]]]]

\* What a call returns or raises.
Returned(v) == [kind |-> "dict", value |-> v]
Raised(e)   == [kind |-> "raise", exc |-> e]

----------------------------------------------------------------------------
(* EcommerceAnalyzer *)

\* __init__: no table loaded.
EcommerceAnalyzer ==
    [meesho_sales |-> None, meesho_returns |-> None,
     flipkart_data |-> None, amazon_data |-> None]

MeeshoSums == {"total_invoice_value", "tax_amount", "quantity"}
AmazonSums == {"Invoice Amount", "Total Tax Amount", "Quantity"}

\* The first label of `needed` (in lookup order) the table lacks, as a
\* one-element sequence; <<>> when it has them all.
FirstMissing(t, needed) ==
    SelectSeq(needed, LAMBDA c : c \notin t.columns)

\* The column lookups of analyze_meesho_data before and after its month
\* section, in the order the code makes them: a missing one raises KeyError.
MeeshoLookupsBefore ==
    <<"total_invoice_value", "tax_amount", "total_taxable_sale_value",
      "end_customer_state_new", "quantity">>
MeeshoLookupsAfter == <<"hsn_code", "gst_rate">>

\* analyze_meesho_data filtering the table itself on the month it derives:
\* the rows without a month are dropped from self.meesho_sales.
MeeshoAfterAnalyzeDropNaT(t) ==
    IF t = None THEN t
    ELSE IF FirstMissing(t, <<"total_invoice_value", "tax_amount",
                              "total_taxable_sale_value",
                              "end_customer_state_new", "quantity">>) # <<>>
         THEN t
    ELSE IF "order_date" \in t.columns /\ "order_date" \in t.datetime
         THEN [WithMonth(t, "order_date") EXCEPT !.rows =
                  SelectSeq(@, LAMBDA r : r["month"] # NaT)]
         ELSE t

\* self.meesho_sales after analyze_meesho_data: the call adds the derived
\* 'month' column to the table itself, unless it returned or raised first.
MeeshoAfterAnalyze(t) ==
    IF t = None THEN t
    ELSE IF FirstMissing(t, MeeshoLookupsBefore) # <<>> THEN t
    ELSE IF "order_date" \in t.columns /\ "order_date" \in t.datetime
         THEN WithMonth(t, "order_date")
         ELSE t

\* analyze_meesho_data: what the call returns or raises for the table t.
analyze_meesho_data(t) ==
    IF t = None THEN None
    ELSE IF FirstMissing(t, MeeshoLookupsBefore) # <<>>
         THEN Raised("KeyError")
    ELSE IF "order_date" \in t.columns /\ "order_date" \notin t.datetime
         THEN Raised("AttributeError")
    ELSE IF FirstMissing(t, MeeshoLookupsAfter) # <<>>
         THEN Raised("KeyError")
    ELSE
      LET basic ==
            [total_orders |-> Length(t),
             total_sales |-> ColumnSum(t, "total_invoice_value"),
             total_tax |-> ColumnSum(t, "tax_amount"),
             taxable_sales |-> ColumnSum(t, "total_taxable_sale_value"),
             state_wise |-> GroupBySum(t, "end_customer_state_new", MeeshoSums),
             product_performance |-> GroupBySum(t, "hsn_code", MeeshoSums),
             tax_rate_analysis |-> GroupBySum(t, "gst_rate", MeeshoSums)]
          monthly ==
            IF "order_date" \in t.columns
            THEN [monthly |->
                    GroupBySum(WithMonth(t, "order_date"), "month", MeeshoSums)]
            ELSE <<>>
      IN  Returned(basic @@ monthly)

\* The column lookups analyze_amazon_data makes once it has found shipments.
AmazonLookupsBefore ==
    <<"Invoice Amount", "Total Tax Amount", "Tax Exclusive Gross",
      "Ship To State", "Quantity">>
AmazonLookupsAfter == <<"Hsn/sac">>

tcs_columns ==
    <<"Tcs Igst Amount", "Tcs Cgst Amount", "Tcs Sgst Amount", "Tcs Utgst Amount">>

\* sum(tcs_data): the Python sum of the sums of the TCS columns present.
TotalTcs(shipments) ==
    LET present == SelectSeq(tcs_columns, LAMBDA c : c \in shipments.columns)
    IN  Number(SeqSum([i \in 1..Len(present) |->
                          ColumnSum(shipments, present[i]).val]),
               present # <<>>)

\* analyze_amazon_data: what the call returns or raises for the table t.
\* The month column is derived on the filtered copy `shipments`, so the
\* table itself is left as it was.
analyze_amazon_data(t) ==
    IF t = None THEN None
    ELSE IF "Transaction Type" \notin t.columns THEN Raised("KeyError")
    ELSE
      LET shipments == Filter(t, "Transaction Type", "Shipment")
          refunds == Filter(t, "Transaction Type", "Refund")
          cancellations == Filter(t, "Transaction Type", "Cancel")
          counts ==
            [total_shipments |-> Length(shipments),
             total_refunds |-> Length(refunds),
             total_cancellations |-> Length(cancellations)]
      IN  IF Empty(shipments) THEN Returned(counts)
          ELSE IF FirstMissing(t, AmazonLookupsBefore) # <<>>
               THEN Raised("KeyError")
          ELSE IF "Order Date" \in t.columns /\ "Order Date" \notin t.datetime
               THEN Raised("AttributeError")
          ELSE IF FirstMissing(t, AmazonLookupsAfter) # <<>>
               THEN Raised("KeyError")
          ELSE
            LET sums ==
                  [total_sales |-> ColumnSum(shipments, "Invoice Amount"),
                   total_tax |-> ColumnSum(shipments, "Total Tax Amount"),
                   tax_exclusive_gross |->
                       ColumnSum(shipments, "Tax Exclusive Gross"),
                   state_wise |->
                       GroupBySum(shipments, "Ship To State", AmazonSums),
                   product_performance |->
                       GroupBySum(shipments, "Hsn/sac", AmazonSums),
                   total_tcs |-> TotalTcs(shipments)]
                monthly ==
                  IF "Order Date" \in t.columns
                  THEN [monthly |->
                          GroupBySum(WithMonth(shipments, "Order Date"),
                                     "month", AmazonSums)]
                  ELSE <<>>
            IN  Returned(counts @@ sums @@ monthly)

\* dict.get(key, default)
Get(d, key, default) == IF key \in DOMAIN d THEN d[key] ELSE default

\* The analyzer after create_comparison_dashboard: analyze_meesho_data has
\* run on its Meesho table.
AnalyzerAfterComparison(a) ==
    [a EXCEPT !.meesho_sales = MeeshoAfterAnalyze(@)]

\* create_comparison_dashboard for the analyzer a: the comparisons dict
\* (platform -> Sales, Tax, Orders), or the exception an analyze call
\* raised.  A dict returned by an analyze call is never empty, so
\* `if meesho_analysis:` tests for None.
create_comparison_dashboard(a) ==
    LET m == analyze_meesho_data(a.meesho_sales)
        z == analyze_amazon_data(a.amazon_data)
        meesho ==
            IF m.kind = "dict"
            THEN [Meesho |-> [Sales |-> m.value.total_sales,
                              Tax |-> m.value.total_tax,
                              Orders |-> m.value.total_orders]]
            ELSE <<>>
        amazon ==
            IF z.kind = "dict"
            THEN [Amazon |->
                    [Sales |-> Get(z.value, "total_sales", Number(0, FALSE)),
                     Tax |-> Get(z.value, "total_tax", Number(0, FALSE)),
                     Orders |-> Get(z.value, "total_shipments", 0)]]
            ELSE <<>>
        flipkart ==
            IF a.flipkart_data # None /\ ~Empty(a.flipkart_data)
            THEN [Flipkart |-> [Sales |-> Number(0, FALSE),
                                Tax |-> Number(0, FALSE),
                                Orders |-> Length(a.flipkart_data)]]
            ELSE <<>>
    IN  IF m.kind = "raise" THEN m
        ELSE IF z.kind = "raise" THEN z
        ELSE Returned(meesho @@ amazon @@ flipkart)

\* The analyzer calls create_comparison_dashboard makes, with what each
\* returned or raised, in order.
ComparisonCalls(a) ==
    LET m == analyze_meesho_data(a.meesho_sales)
        z == analyze_amazon_data(a.amazon_data)
    IN  <<[fn |-> "analyze_meesho_data", result |-> m]>>
        \o (IF m.kind = "raise" THEN <<>>
            ELSE <<[fn |-> "analyze_amazon_data", result |-> z]>>)
        \o <<[fn |-> "create_comparison_dashboard",
              result |-> create_comparison_dashboard(a)]>>

----------------------------------------------------------------------------
(* Loaders.  An uploaded file is None or [fault, table]: the table is what  *)
(* pd.read_csv parses from it (header labels as written, date cells as      *)
(* text); fault is "none", "read" when pd.read_csv raises on it (empty,     *)
(* malformed, undecodable), or the label of a date column on which          *)
(* pd.to_datetime raises (the header holds that label twice once stripped:  *)
(* df[col] is then a DataFrame, "cannot assemble with duplicate keys").     *)

\* str.strip() on one header label.
Strip(label) ==
    CASE label = "gst_rate " -> "gst_rate"
      [] label = " Hsn/sac" -> "Hsn/sac"
      [] OTHER -> label

\* df.columns = df.columns.str.strip()
StripColumns(t) ==
    [t EXCEPT !.columns = {Strip(c) : c \in @},
              !.rows = [i \in 1..Len(t.rows) |->
                          [c \in {Strip(l) : l \in DOMAIN t.rows[i]} |->
                              t.rows[i][CHOOSE l \in DOMAIN t.rows[i] :
                                            Strip(l) = c]]]]

\* df[col] = pd.to_datetime(df[col], errors='coerce')
ConvertDates(t, col) ==
    [t EXCEPT !.datetime = @ \cup {col},
              !.rows = [i \in 1..Len(t.rows) |->
                          [t.rows[i] EXCEPT ![col] = ToDatetime(@)]]]

\* The outcome of a load: the analyzer after it, the value returned, and
\* the messages it showed.
Loaded(a, ok, msgs) == [analyzer |-> a, ok |-> ok, messages |-> msgs]

\* The returns section assigning what was parsed before the failure: the
\* returns table is left partially populated.
ProcessReturnsPartial(a, returns_file) ==
    IF returns_file = None THEN Loaded(a, TRUE, {})
    ELSE IF returns_file.fault = "read"
         THEN Loaded([a EXCEPT !.meesho_returns = returns_file.table], TRUE,
                     {"Could not process returns file"})
    ELSE Loaded([a EXCEPT !.meesho_returns = StripColumns(returns_file.table)],
                TRUE, {})

\* The returns section of load_meesho_data: its own try/except around
\* read_csv and the header strip; the load returns True either way.
ProcessReturns(a, returns_file) ==
    IF returns_file = None THEN Loaded(a, TRUE, {})
    ELSE IF returns_file.fault = "read"
         THEN Loaded(a, TRUE, {"Could not process returns file"})
    ELSE Loaded([a EXCEPT !.meesho_returns = StripColumns(returns_file.table)],
                TRUE, {})

\* load_meesho_data(sales_file, returns_file)
load_meesho_data(a, sales_file, returns_file) ==
    IF sales_file.fault = "read"
    THEN Loaded(a, FALSE, {"Error loading Meesho data"})
    ELSE
      LET stripped == StripColumns(sales_file.table)
          a1 == [a EXCEPT !.meesho_sales = stripped]
      IN  IF "order_date" \in stripped.columns /\ sales_file.fault = "order_date"
          THEN Loaded(a1, FALSE, {"Error loading Meesho data"})
          ELSE
            LET a2 == IF "order_date" \in stripped.columns
                      THEN [a1 EXCEPT !.meesho_sales =
                                          ConvertDates(@, "order_date")]
                      ELSE a1
            IN  ProcessReturns(a2, returns_file)

\* load_flipkart_data(file)
load_flipkart_data(a, file) ==
    IF file.fault = "read"
    THEN Loaded(a, FALSE, {"Error loading Flipkart data"})
    ELSE Loaded([a EXCEPT !.flipkart_data = StripColumns(file.table)], TRUE, {})

date_columns == <<"Invoice Date", "Order Date", "Shipment Date">>

\* The loop of load_amazon_data over date_columns from position i on: the
\* table when the loop ends, and whether it ended by raising.
RECURSIVE ConvertDateColumns(_, _, _)
ConvertDateColumns(t, fault, i) ==
    IF i > Len(date_columns) THEN [table |-> t, raised |-> FALSE]
    ELSE IF date_columns[i] \notin t.columns
         THEN ConvertDateColumns(t, fault, i + 1)
    ELSE IF fault = date_columns[i] THEN [table |-> t, raised |-> TRUE]
    ELSE ConvertDateColumns(ConvertDates(t, date_columns[i]), fault, i + 1)

\* load_amazon_data(file)
load_amazon_data(a, file) ==
    IF file.fault = "read"
    THEN Loaded(a, FALSE, {"Error loading Amazon data"})
    ELSE
      LET conv == ConvertDateColumns(StripColumns(file.table), file.fault, 1)
      IN  Loaded([a EXCEPT !.amazon_data = conv.table], ~conv.raised,
                 IF conv.raised THEN {"Error loading Amazon data"} ELSE {})

----------------------------------------------------------------------------
(* Uploaded files the model draws its inputs from *)

File(fault, table) == [fault |-> fault, table |-> table]

\* The header of a Meesho sales export as written in the file (one label is
\* padded, as exports have them) and one of its rows.
MeeshoHeader ==
    {"total_invoice_value", "tax_amount", "total_taxable_sale_value",
     "quantity", "end_customer_state_new", "order_date", "hsn_code",
     "gst_rate "}

MeeshoRow(inv, tax, state, date, hsn, gst) ==
    [c \in MeeshoHeader |->
        CASE c = "total_invoice_value" -> inv
          [] c = "tax_amount" -> tax
          [] c = "total_taxable_sale_value" -> inv - tax
          [] c = "quantity" -> IF inv > 2000 THEN 2000 ELSE 1000
          [] c = "end_customer_state_new" -> state
          [] c = "order_date" -> date
          [] c = "hsn_code" -> hsn
          [] c = "gst_rate " -> gst]

\* The header of an Amazon MTR report and one of its rows.
AmazonHeader ==
    {"Transaction Type", "Invoice Amount", "Total Tax Amount",
     "Tax Exclusive Gross", "Ship To State", "Quantity", "Invoice Date",
     "Order Date", "Shipment Date", " Hsn/sac", "Tcs Igst Amount",
     "Tcs Cgst Amount", "Tcs Sgst Amount", "Tcs Utgst Amount"}

AmazonRow(type, inv, tax, state, date, hsn) ==
    [c \in AmazonHeader |->
        CASE c = "Transaction Type" -> type
          [] c = "Invoice Amount" -> inv
          [] c = "Total Tax Amount" -> tax
          [] c = "Tax Exclusive Gross" -> inv - tax
          [] c = "Ship To State" -> state
          [] c = "Quantity" -> IF inv > 2000 THEN 2000 ELSE 1000
          [] c \in {"Invoice Date", "Order Date", "Shipment Date"} -> date
          [] c = " Hsn/sac" -> hsn
          [] c = "Tcs Igst Amount" -> IF state = "UP" THEN 0 ELSE 100
          [] c \in {"Tcs Cgst Amount", "Tcs Sgst Amount"} ->
                IF state = "UP" THEN 50 ELSE 0
          [] c = "Tcs Utgst Amount" -> 0]

\* What read_csv parses from a file with the given header and rows.
Parsed(header, rws) ==
    Table(header, [i \in 1..Len(rws) |-> Restrict(rws[i], header)], {})

\* Headers: the full one, and the full one less any single column.
Headers(full) == {full} \cup {full \ {c} : c \in full}

\* (invoice value, tax) of a row, in thousandths
Priced == {<<1004, 180>>, <<2500, 0>>}

\* (state, order date, product code, tax rate) of a row: a full row of
\* either state, and rows missing one of the four grouping keys.
Keyed ==
    {<<"UP", "2024-01-15", "6104", "5">>, <<"MH", "2024-02-03", "6104", "12">>,
     <<NaN, "2024-01-15", "6104", "5">>, <<"UP", "n/a", "6104", "5">>,
     <<"UP", "2024-01-15", NaN, "5">>, <<"UP", "2024-02-03", "6104", NaN>>}

MeeshoRows ==
    {MeeshoRow(p[1], p[2], k[1], k[2], k[3], k[4]) : p \in Priced, k \in Keyed}

AmazonRows ==
    {AmazonRow("Shipment", p[1], p[2], k[1], k[2], k[3]) :
        p \in Priced, k \in Keyed}
    \cup {AmazonRow(ty, p[1], p[2], "UP", "2024-01-15", "6104") :
            ty \in {"Refund", "Cancel", "shipment"}, p \in Priced}

\* Files for exercising one analyzer alone: every table up to the row bound
\* under the full header, and tables of at most one row under each header
\* that lacks a column.
MeeshoFiles ==
    {File("none", Parsed(MeeshoHeader, rws)) :
        rws \in SeqsUpTo(MeeshoRows, MaxMeeshoRows)}
    \cup {File("none", Parsed(h, rws)) :
            h \in Headers(MeeshoHeader), rws \in SeqsUpTo(MeeshoRows, 1)}

AmazonFiles ==
    {File("none", Parsed(AmazonHeader, rws)) :
        rws \in SeqsUpTo(AmazonRows, MaxAmazonRows)}
    \cup {File("none", Parsed(h, rws)) :
            h \in Headers(AmazonHeader), rws \in SeqsUpTo(AmazonRows, 1)}

\* Files for a full render: few rows, so that every combination of the four
\* upload slots is covered.  Sales of 0 with and without tax, a missing
\* date and a missing state are among the rows; the headers are the full
\* one and those lacking the first column an analyzer looks up, the date
\* column it tests for, and the last column it looks up.
RenderMeeshoRows ==
    {MeeshoRow(1004, 180, "UP", "2024-01-15", "6104", "5"),
     MeeshoRow(0, 0, "UP", "n/a", "6104", "5"),
     MeeshoRow(0, 180, NaN, "2024-02-03", "6104", "12")}

RenderAmazonRows ==
    {AmazonRow("Shipment", 1004, 180, "UP", "2024-01-15", "6104"),
     AmazonRow("Refund", 2500, 0, "UP", "n/a", "6104")}

RenderMeeshoFiles ==
    {File("none", Parsed(h, rws)) :
        h \in {MeeshoHeader, MeeshoHeader \ {"total_invoice_value"},
               MeeshoHeader \ {"order_date"}, MeeshoHeader \ {"gst_rate "}},
        rws \in SeqsUpTo(RenderMeeshoRows, MaxRenderRows)}
    \cup {File("order_date", Parsed(MeeshoHeader, rws)) :
            rws \in SeqsUpTo(RenderMeeshoRows, MaxRenderRows)}
    \cup {File("read", Parsed(MeeshoHeader, <<>>))}

RenderAmazonFiles ==
    {File("none", Parsed(h, rws)) :
        h \in {AmazonHeader, AmazonHeader \ {"Transaction Type"},
               AmazonHeader \ {"Order Date"}, AmazonHeader \ {" Hsn/sac"}},
        rws \in SeqsUpTo(RenderAmazonRows, MaxRenderRows)}
    \cup {File("Shipment Date", Parsed(AmazonHeader, rws)) :
            rws \in SeqsUpTo(RenderAmazonRows, MaxRenderRows)}
    \cup {File("read", Parsed(AmazonHeader, <<>>))}

\* Flipkart and Meesho-returns exports: the code reads no column of them.
OtherHeader == {"Order ID"}
OtherRow == [c \in OtherHeader |-> "OD1"]

OtherFiles ==
    {File("none", Parsed(OtherHeader, rws)) :
        rws \in SeqsUpTo({OtherRow}, MaxRenderRows)}
    \cup {File("read", Parsed(OtherHeader, <<>>))}

ReturnsFiles ==
    {File(f, Parsed(OtherHeader, <<OtherRow>>)) : f \in {"none", "read"}}

NoFiles ==
    [meesho_sales |-> None, meesho_returns |-> None,
     amazon |-> None, flipkart |-> None]

\* What the four uploaders can hold in one render.
Uploads ==
    {[meesho_sales |-> ms, meesho_returns |-> mr, amazon |-> az,
      flipkart |-> fk] :
        ms \in {None} \cup RenderMeeshoFiles,
        mr \in {None} \cup ReturnsFiles,
        az \in {None} \cup RenderAmazonFiles,
        fk \in {None} \cup OtherFiles}

----------------------------------------------------------------------------
(* main(): one render of the page *)

Unset == [kind |-> "unset"]

\* x / y in Python: two Python ints with y = 0 raise ZeroDivisionError; with
\* a numpy operand the quotient by 0 is nan or inf (warnings are ignored).
Divide(x, y) ==
    IF y.val # 0 THEN [kind |-> "number", num |-> x.val, den |-> y.val]
    ELSE IF ~x.numpy /\ ~y.numpy THEN Raised("ZeroDivisionError")
    ELSE IF x.val = 0 THEN [kind |-> "nan"] ELSE [kind |-> "inf"]

Platforms == <<"Meesho", "Amazon", "Flipkart">>

\* The platforms with a row in the comparisons dict, in insertion order.
Compared(comp) == SelectSeq(Platforms, LAMBDA p : p \in DOMAIN comp)

\* sum([comp.get(field, 0) for comp in comparisons.values()])
Total(comp, field) ==
    SeqSum([i \in 1..Len(Compared(comp)) |->
               IF field = "Orders" THEN comp[Compared(comp)[i]][field]
               ELSE comp[Compared(comp)[i]][field].val])

\* df_comparison['Sales'].idxmax(): the first platform with the largest sales.
IdxMax(comp) ==
    LET ps == Compared(comp)
        i == CHOOSE i \in 1..Len(ps) :
                /\ \A j \in 1..Len(ps) : comp[ps[j]].Sales.val <= comp[ps[i]].Sales.val
                /\ \A j \in 1..(i - 1) : comp[ps[j]].Sales.val < comp[ps[i]].Sales.val
    IN  ps[i]

\* The state in which main() starts: its locals are unassigned and no
\* analyzer has been constructed yet.
Init ==
    /\ files = NoFiles
    /\ analyzer = EcommerceAnalyzer
    /\ data_loaded = FALSE
    /\ pc = "main"
    /\ messages = {}
    /\ calls = <<>>
    /\ comparisons = Unset
    /\ meesho_analysis = Unset
    /\ amazon_analysis = Unset
    /\ rendered = <<>>
    /\ unhandled = "none"

\* A page interaction (upload, removal, tab switch) after a render has
\* ended: the script runs again from the top, with nothing kept from the
\* render before.
Rerun ==
    /\ pc \in {"done", "stopped", "crashed"}
    /\ files' = NoFiles
    /\ analyzer' = EcommerceAnalyzer
    /\ data_loaded' = FALSE
    /\ pc' = "main"
    /\ messages' = {}
    /\ calls' = <<>>
    /\ comparisons' = Unset
    /\ meesho_analysis' = Unset
    /\ amazon_analysis' = Unset
    /\ rendered' = <<>>
    /\ unhandled' = "none"

\* main() up to its load section: the analyzer is constructed and the four
\* uploaders return the files they hold.
Uploaders ==
    /\ pc = "main"
    /\ files' \in Uploads
    /\ analyzer' = EcommerceAnalyzer
    /\ data_loaded' = FALSE
    /\ pc' = "load_meesho"
    /\ UNCHANGED <<messages, calls, comparisons, meesho_analysis,
                   amazon_analysis, rendered, unhandled>>

\* The body of one `if file: if analyzer.load_...(file): data_loaded = True`
\* block, given the outcome of the load.
LoadStep(file, outcome) ==
    IF file = None
    THEN UNCHANGED <<analyzer, data_loaded, messages>>
    ELSE /\ analyzer' = outcome.analyzer
         /\ data_loaded' = (data_loaded \/ outcome.ok)
         /\ messages' = messages \cup outcome.messages

LoadMeesho ==
    /\ pc = "load_meesho"
    /\ LoadStep(files.meesho_sales,
                load_meesho_data(analyzer, files.meesho_sales,
                                 files.meesho_returns))
    /\ pc' = "load_amazon"
    /\ UNCHANGED <<files, calls, comparisons, meesho_analysis,
                   amazon_analysis, rendered, unhandled>>

LoadAmazon ==
    /\ pc = "load_amazon"
    /\ LoadStep(files.amazon, load_amazon_data(analyzer, files.amazon))
    /\ pc' = "load_flipkart"
    /\ UNCHANGED <<files, calls, comparisons, meesho_analysis,
                   amazon_analysis, rendered, unhandled>>

LoadFlipkart ==
    /\ pc = "load_flipkart"
    /\ LoadStep(files.flipkart, load_flipkart_data(analyzer, files.flipkart))
    /\ pc' = "check_loaded"
    /\ UNCHANGED <<files, calls, comparisons, meesho_analysis,
                   amazon_analysis, rendered, unhandled>>

\* if not data_loaded: st.info(...); return
CheckLoaded ==
    /\ pc = "check_loaded"
    /\ IF data_loaded
       THEN pc' = "tab1" /\ UNCHANGED messages
       ELSE /\ pc' = "stopped"
            /\ messages' = messages \cup {"Please upload at least one data file"}
    /\ UNCHANGED <<files, analyzer, data_loaded, calls, comparisons,
                   meesho_analysis, amazon_analysis, rendered, unhandled>>

\* An exception leaves main(): nothing after the raising statement runs.
Crash(exc) ==
    /\ pc' = "crashed"
    /\ unhandled' = exc

\* What the Overview tab shows for a comparisons dict.
Overview(comp) ==
    IF DOMAIN comp = {} THEN <<>>
    ELSE [total_platforms |-> Cardinality(DOMAIN comp),
          overview_total_sales |-> Total(comp, "Sales"),
          overview_total_tax |-> Total(comp, "Tax")]
         @@ (IF Cardinality(DOMAIN comp) > 1
             THEN [overview_bar |-> DOMAIN comp] ELSE <<>>)

Tab1 ==
    /\ pc = "tab1"
    /\ LET r == create_comparison_dashboard(analyzer)
       IN  /\ calls' = calls \o ComparisonCalls(analyzer)
           /\ analyzer' = AnalyzerAfterComparison(analyzer)
           /\ IF r.kind = "raise"
              THEN Crash(r.exc) /\ UNCHANGED <<comparisons, rendered>>
              ELSE /\ comparisons' = r.value
                   /\ rendered' = rendered @@ Overview(r.value)
                   /\ pc' = "tab2"
                   /\ UNCHANGED unhandled
    /\ UNCHANGED <<files, data_loaded, messages, meesho_analysis,
                   amazon_analysis>>

\* The Meesho tab's first three metric tiles, drawn before the tax rate.
MeeshoTiles(m) ==
    [meesho_total_orders |-> m.total_orders,
     meesho_total_sales |-> m.total_sales,
     meesho_total_tax |-> m.total_tax]

\* What the Meesho tab shows after its tiles, given the tax rate.
MeeshoCharts(m, tax_rate) ==
    [avg_tax_rate |-> tax_rate,
     meesho_state_chart |-> m.state_wise,
     meesho_tax_rate_chart |-> m.tax_rate_analysis,
     meesho_products |-> m.product_performance]

Tab2 ==
    /\ pc = "tab2"
    /\ LET r == analyze_meesho_data(analyzer.meesho_sales)
       IN  /\ calls' = Append(calls, [fn |-> "analyze_meesho_data", result |-> r])
           /\ analyzer' = [analyzer EXCEPT !.meesho_sales = MeeshoAfterAnalyze(@)]
           /\ IF r.kind = "raise"
              THEN /\ Crash(r.exc)
                   /\ UNCHANGED <<meesho_analysis, rendered, messages>>
              ELSE IF r.kind = "None"
              THEN /\ meesho_analysis' = r
                   /\ messages' = messages
                          \cup {"No Meesho data available for analysis"}
                   /\ pc' = "tab3"
                   /\ UNCHANGED <<rendered, unhandled>>
              ELSE LET tax_rate == Divide(r.value.total_tax, r.value.total_sales)
                   IN  /\ meesho_analysis' = r
                       /\ UNCHANGED messages
                       /\ IF tax_rate.kind = "raise"
                          THEN /\ Crash(tax_rate.exc)
                               /\ rendered' = rendered @@ MeeshoTiles(r.value)
                          ELSE /\ rendered' = rendered @@ MeeshoTiles(r.value)
                                      @@ MeeshoCharts(r.value, tax_rate)
                               /\ pc' = "tab3"
                               /\ UNCHANGED unhandled
    /\ UNCHANGED <<files, data_loaded, comparisons, amazon_analysis>>

\* What the Amazon tab shows for an analysis dict.
AmazonView(z) ==
    [amazon_total_shipments |-> z.total_shipments,
     amazon_total_sales |-> Get(z, "total_sales", Number(0, FALSE)),
     amazon_total_tax |-> Get(z, "total_tax", Number(0, FALSE)),
     amazon_tcs |-> Get(z, "total_tcs", Number(0, FALSE)),
     amazon_total_refunds |-> z.total_refunds,
     amazon_total_cancellations |-> z.total_cancellations]
    @@ (IF z.total_shipments > 0
        THEN [return_rate |-> [num |-> z.total_refunds,
                               den |-> z.total_shipments]]
        ELSE <<>>)
    @@ (IF "state_wise" \in DOMAIN z
        THEN [amazon_state_chart |-> z.state_wise] ELSE <<>>)

Tab3 ==
    /\ pc = "tab3"
    /\ LET r == analyze_amazon_data(analyzer.amazon_data)
       IN  /\ calls' = Append(calls, [fn |-> "analyze_amazon_data", result |-> r])
           /\ IF r.kind = "raise"
              THEN /\ Crash(r.exc)
                   /\ UNCHANGED <<amazon_analysis, rendered, messages>>
              ELSE /\ amazon_analysis' = r
                   /\ pc' = "tab4"
                   /\ UNCHANGED unhandled
                   /\ IF r.kind = "None"
                      THEN /\ messages' = messages
                                  \cup {"No Amazon data available for analysis"}
                           /\ UNCHANGED rendered
                      ELSE /\ rendered' = rendered @@ AmazonView(r.value)
                           /\ UNCHANGED messages
    /\ UNCHANGED <<files, analyzer, data_loaded, comparisons, meesho_analysis>>

Tab4 ==
    /\ pc = "tab4"
    /\ IF analyzer.flipkart_data # None
       THEN /\ rendered' = rendered @@
                  [flipkart_records |-> Length(analyzer.flipkart_data),
                   flipkart_columns |->
                       Cardinality(analyzer.flipkart_data.columns)]
            /\ UNCHANGED messages
       ELSE /\ messages' = messages
                   \cup {"No Flipkart data available for analysis"}
            /\ UNCHANGED rendered
    /\ pc' = "tab5"
    /\ UNCHANGED <<files, analyzer, data_loaded, calls, comparisons,
                   meesho_analysis, amazon_analysis, unhandled>>

\* What the Comparison tab computes from a comparisons dict of two or more
\* rows: the bars, the summary table and the insights.
Insights(comp) ==
    LET total_sales == Total(comp, "Sales")
        best_platform == IdxMax(comp)
        best_platform_sales == comp[best_platform].Sales.val
    IN  [comparison_table |-> comp,
         comparison_total_sales |-> total_sales,
         best_platform |-> best_platform,
         best_platform_sales |-> best_platform_sales]
        @@ (IF total_sales > 0
            THEN [best_platform_share |->
                     [num |-> best_platform_sales, den |-> total_sales]]
            ELSE <<>>)

\* The Comparison tab branching on len(comparisons) >= 1.
ComparisonViewFromOne(comp) ==
    IF Cardinality(DOMAIN comp) >= 1
    THEN [shown |-> Insights(comp), info |-> {}]
    ELSE [shown |-> <<>>,
          info |-> {"Upload data from multiple platforms to see comparisons"}]

\* The Comparison tab's branch on len(comparisons) > 1: what it draws, and
\* the st.info it shows instead.
ComparisonView(comp) ==
    IF Cardinality(DOMAIN comp) > 1
    THEN [shown |-> Insights(comp), info |-> {}]
    ELSE [shown |-> <<>>,
          info |-> {"Upload data from multiple platforms to see comparisons"}]

Tab5 ==
    /\ pc = "tab5"
    /\ LET r == create_comparison_dashboard(analyzer)
       IN  /\ calls' = calls \o ComparisonCalls(analyzer)
           /\ analyzer' = AnalyzerAfterComparison(analyzer)
           /\ IF r.kind = "raise"
              THEN /\ Crash(r.exc)
                   /\ UNCHANGED <<comparisons, rendered, messages>>
              ELSE /\ comparisons' = r.value
                   /\ pc' = "done"
                   /\ UNCHANGED unhandled
                   /\ rendered' = rendered @@ ComparisonView(r.value).shown
                   /\ messages' = messages \cup ComparisonView(r.value).info
    /\ UNCHANGED <<files, data_loaded, meesho_analysis, amazon_analysis>>

Next ==
    \/ Rerun
    \/ Uploaders
    \/ LoadMeesho
    \/ LoadAmazon
    \/ LoadFlipkart
    \/ CheckLoaded
    \/ Tab1
    \/ Tab2
    \/ Tab3
    \/ Tab4
    \/ Tab5

Spec == Init /\ [][Next]_vars

----------------------------------------------------------------------------
(* The analyzers alone: one platform's file is loaded into a fresh          *)
(* analyzer, then analyze_meesho_data and analyze_amazon_data are called.   *)

InitAnalyzer ==
    /\ files \in {[NoFiles EXCEPT !.meesho_sales = f] : f \in MeeshoFiles}
                 \cup {[NoFiles EXCEPT !.amazon = f] : f \in AmazonFiles}
    /\ analyzer =
          IF files.meesho_sales # None
          THEN load_meesho_data(EcommerceAnalyzer, files.meesho_sales,
                                None).analyzer
          ELSE load_amazon_data(EcommerceAnalyzer, files.amazon).analyzer
    /\ data_loaded = TRUE
    /\ pc = "loaded"
    /\ messages = {}
    /\ calls = <<>>
    /\ comparisons = Unset
    /\ meesho_analysis = Unset
    /\ amazon_analysis = Unset
    /\ rendered = <<>>
    /\ unhandled = "none"

CallAnalyzeMeesho ==
    /\ pc = "loaded"
    /\ meesho_analysis = Unset
    /\ meesho_analysis' = analyze_meesho_data(analyzer.meesho_sales)
    /\ analyzer' = [analyzer EXCEPT !.meesho_sales = MeeshoAfterAnalyze(@)]
    /\ UNCHANGED <<files, data_loaded, pc, messages, calls, comparisons,
                   amazon_analysis, rendered, unhandled>>

CallAnalyzeAmazon ==
    /\ pc = "loaded"
    /\ amazon_analysis = Unset
    /\ amazon_analysis' = analyze_amazon_data(analyzer.amazon_data)
    /\ UNCHANGED <<files, analyzer, data_loaded, pc, messages, calls,
                   comparisons, meesho_analysis, rendered, unhandled>>

NextAnalyzer ==
    \/ CallAnalyzeMeesho
    \/ CallAnalyzeAmazon

SpecAnalyzer == InitAnalyzer /\ [][NextAnalyzer]_vars

----------------------------------------------------------------------------
(* Properties of the analyzers (checked under SpecAnalyzer) *)

\* The sum of column col over the rows of rws at the positions in S.
RECURSIVE SumAt(_, _, _)
SumAt(rws, S, col) ==
    IF S = {} THEN 0
    ELSE LET i == CHOOSE i \in S : TRUE
         IN  rws[i][col] + SumAt(rws, S \ {i}, col)

\* The positions of the rows of t whose cell in col is value.
RowsWith(t, col, value) == {i \in 1..Len(t.rows) : t.rows[i][col] = value}

\* The sum over all groups of column c of a grouped aggregate.
RECURSIVE GroupTotal(_, _, _)
GroupTotal(agg, keys, c) ==
    IF keys = {} THEN 0
    ELSE LET k == CHOOSE k \in keys : TRUE
         IN  agg[k][c] + GroupTotal(agg, keys \ {k}, c)

\* C1: for every Amazon table, analyze_amazon_data reports total_shipments,
\* total_refunds and total_cancellations as the numbers of rows whose
\* 'Transaction Type' is exactly 'Shipment', 'Refund' and 'Cancel', and
\* total_sales / total_tax as the sums of 'Invoice Amount' / 'Total Tax
\* Amount' over the Shipment rows only (the keys are left out, and read as
\* 0, exactly when there is no Shipment row).
C1_ShipmentMetrics ==
    amazon_analysis.kind = "dict" =>
        LET t == analyzer.amazon_data
            z == amazon_analysis.value
            ship == RowsWith(t, "Transaction Type", "Shipment")
        IN  /\ z.total_shipments = Cardinality(ship)
            /\ z.total_refunds =
                   Cardinality(RowsWith(t, "Transaction Type", "Refund"))
            /\ z.total_cancellations =
                   Cardinality(RowsWith(t, "Transaction Type", "Cancel"))
            /\ Get(z, "total_sales", Number(0, FALSE)).val
                   = SumAt(t.rows, ship, "Invoice Amount")
            /\ Get(z, "total_tax", Number(0, FALSE)).val
                   = SumAt(t.rows, ship, "Total Tax Amount")
            /\ ("total_sales" \in DOMAIN z) = (ship # {})

\* C1 witness: two Shipment rows and a Refund row have been analysed, as
\* in the spec's example.
C1_Witness ==
    /\ amazon_analysis.kind = "dict"
    /\ amazon_analysis.value.total_shipments = 2
    /\ amazon_analysis.value.total_refunds = 1
    /\ "total_sales" \in DOMAIN amazon_analysis.value
    /\ Len(analyzer.amazon_data.rows) = 3

\* The grouped aggregates of a Meesho analysis with their grouping columns.
MeeshoGroupings ==
    {<<"state_wise", "end_customer_state_new">>, <<"monthly", "month">>,
     <<"product_performance", "hsn_code">>, <<"tax_rate_analysis", "gst_rate">>}

\* The grouped aggregates of an Amazon analysis with their grouping columns.
AmazonGroupings ==
    {<<"state_wise", "Ship To State">>, <<"monthly", "month">>,
     <<"product_performance", "Hsn/sac">>}

\* Conservation for one analysis dict z of the rows of t.
Conserved(z, t, groupings, sumcols) ==
    \A g \in groupings : \A c \in sumcols :
        g[1] \in DOMAIN z =>
            GroupTotal(z[g[1]], DOMAIN z[g[1]], c)
                = SumAt(t.rows, 1..Len(t.rows), c)

\* C2: conservation of totals: for every grouped aggregate, the sum over
\* all groups of each numeric column equals the ungrouped sum of that column
\* over the same rows (all rows for Meesho, the Shipment rows for Amazon),
\* also when rows have a missing value in the grouping column.
C2_Conservation ==
    /\ meesho_analysis.kind = "dict" =>
           Conserved(meesho_analysis.value, analyzer.meesho_sales,
                     MeeshoGroupings, MeeshoSums)
    /\ amazon_analysis.kind = "dict" =>
           Conserved(amazon_analysis.value,
                     [analyzer.amazon_data EXCEPT !.rows =
                         SelectSeq(@, LAMBDA r : r["Transaction Type"] = "Shipment")],
                     AmazonGroupings, AmazonSums)

\* The distinct values of the grouping column among the rows of t, the
\* month of a row being the month of its date.
KeyValues(t, col, datecol) ==
    {IF col = "month" THEN ToPeriodM(t.rows[i][datecol]) ELSE t.rows[i][col] :
        i \in 1..Len(t.rows)}

\* The group keys of every grouped aggregate of z are the distinct values
\* of its grouping column, a missing value being a key as well.
KeysPreserved(z, t, groupings, datecol) ==
    \A g \in groupings :
        g[1] \in DOMAIN z => DOMAIN z[g[1]] = KeyValues(t, g[2], datecol)

\* C3: in every grouped aggregate the set of group keys equals the set of
\* distinct values of the grouping column in the filtered input; rows with
\* a missing key form their own group under the null key.
C3_GroupKeys ==
    /\ meesho_analysis.kind = "dict" =>
           KeysPreserved(meesho_analysis.value, analyzer.meesho_sales,
                         MeeshoGroupings, "order_date")
    /\ amazon_analysis.kind = "dict" =>
           KeysPreserved(amazon_analysis.value,
                         [analyzer.amazon_data EXCEPT !.rows =
                             SelectSeq(@, LAMBDA r : r["Transaction Type"] = "Shipment")],
                         AmazonGroupings, "Order Date")

----------------------------------------------------------------------------
(* Properties of a render (checked under Spec) *)

\* The positions in main() after the Overview tab has been drawn.
AfterTab1 == {"tab2", "tab3", "tab4", "tab5", "done"}

\* C4: a table that lacks a column an aggregate depends on never makes the
\* analyzer fail: no KeyError of a column lookup leaves the analyzer and
\* reaches the page.
C4_MissingColumnNeverFails == unhandled # "KeyError"

\* The platforms whose table is loaded.
LoadedPlatforms(a) ==
    {p \in {"Meesho", "Amazon", "Flipkart"} :
        \/ p = "Meesho" /\ a.meesho_sales # None
        \/ p = "Amazon" /\ a.amazon_data # None
        \/ p = "Flipkart" /\ a.flipkart_data # None}

\* The platforms whose table is loaded, Flipkart's holding a row at least.
LoadedWithFlipkartRows(a) ==
    {p \in LoadedPlatforms(a) :
        p = "Flipkart" => Len(a.flipkart_data.rows) > 0}

\* A comparisons dict has exactly the rows of `platforms`, each of Sales,
\* Tax and Orders.
RowsAre(comp, platforms) ==
    /\ DOMAIN comp = platforms
    /\ \A p \in DOMAIN comp : DOMAIN comp[p] = {"Sales", "Tax", "Orders"}

CrossPlatform ==
    {"overview_bar", "comparison_table", "comparison_total_sales",
     "best_platform", "best_platform_sales", "best_platform_share"}

\* C6: whenever the comparison holds fewer than two rows, no part of the
\* render has computed a cross-platform comparison (ranking, share,
\* division by the cross-platform total); the share is computed only with
\* two rows or more and total sales greater than 0.
C6_NoComparisonBelowTwoRows ==
    /\ (comparisons = Unset \/ Cardinality(DOMAIN comparisons) < 2) =>
           DOMAIN rendered \cap CrossPlatform = {}
    /\ "best_platform_share" \in DOMAIN rendered =>
           /\ Cardinality(DOMAIN comparisons) >= 2
           /\ rendered.best_platform_share.den > 0
           /\ rendered.best_platform_share.den
                  = SeqSum([i \in 1..Len(Compared(comparisons)) |->
                               comparisons[Compared(comparisons)[i]].Sales.val])

\* C6 witness: a render has ended with exactly one platform row.
C6_Witness ==
    /\ pc = "done"
    /\ Cardinality(DOMAIN comparisons) = 1
    /\ "total_platforms" \in DOMAIN rendered
    /\ "Upload data from multiple platforms to see comparisons" \in messages

\* C7: within a render, every call of an analyzer function returns what the
\* earlier calls of that function returned: the month column a call leaves
\* on the Meesho table changes no later result.
C7_RerunIdentical ==
    \A i, j \in 1..Len(calls) :
        calls[i].fn = calls[j].fn => calls[i].result = calls[j].result

\* C7 witness: a render has ended after three analyses of a Meesho table
\* that holds a row without a date and now carries the month column.
C7_Witness ==
    /\ pc = "done"
    /\ analyzer.meesho_sales # None
    /\ "month" \in analyzer.meesho_sales.columns
    /\ \E i \in 1..Len(analyzer.meesho_sales.rows) :
           analyzer.meesho_sales.rows[i]["month"] = NaT
    /\ Cardinality({i \in 1..Len(calls) :
                       /\ calls[i].fn = "analyze_meesho_data"
                       /\ calls[i].result.kind = "dict"}) = 3

\* The analyzer function and the error text of each platform with one.
Failing ==
    {<<"Meesho", "analyze_meesho_data", "Error loading Meesho data">>,
     <<"Amazon", "analyze_amazon_data", "Error loading Amazon data">>,
     <<"Flipkart", "none", "Error loading Flipkart data">>}

\* C8: when the load of a platform's primary file has failed, that
\* platform's analysis is unavailable: each of its analyze calls returns
\* None and it has no comparison row.
C8_FailedLoadUnavailable ==
    \A f \in Failing :
        f[3] \in messages =>
            /\ \A i \in 1..Len(calls) :
                   calls[i].fn = f[2] => calls[i].result.kind = "None"
            /\ comparisons # Unset => f[1] \notin DOMAIN comparisons

\* The returns file of this render was reached by load_meesho_data and
\* could not be read.
ReturnsFailed ==
    /\ pc \notin {"main", "load_meesho"}
    /\ files.meesho_sales # None
    /\ files.meesho_sales.fault = "none"
    /\ files.meesho_returns # None
    /\ files.meesho_returns.fault = "read"

\* C9: a failure on the optional returns file is not fatal: the warning is
\* shown, the load has returned True with the sales table populated, and
\* the returns table is None.
C9_ReturnsFailureNonFatal ==
    ReturnsFailed =>
        /\ "Could not process returns file" \in messages
        /\ "Error loading Meesho data" \notin messages
        /\ data_loaded
        /\ analyzer.meesho_sales # None
        /\ analyzer.meesho_returns = None

\* C9 witness: load_meesho_data has just returned after such a failure.
C9_Witness == ReturnsFailed /\ pc = "load_amazon"

\* C10: with a loaded Meesho table whose total_sales is 0, the tax rate
\* total_tax / total_sales does not raise: the Meesho tab shows an undefined
\* ratio and the render goes on.
C10_ZeroSalesDoesNotRaise ==
    (meesho_analysis.kind = "dict"
        /\ meesho_analysis.value.total_sales.val = 0) =>
        /\ unhandled # "ZeroDivisionError"
        /\ pc \in {"tab3", "tab4", "tab5", "done"} =>
               rendered.avg_tax_rate.kind \in {"nan", "inf"}

\* The fields of the analyzer that the analysis functions read.
AnalysedTables == {"meesho_sales", "amazon_data", "flipkart_data"}

\* What the load of this render's file for a table gives on an analyzer
\* with no tables; no file gives no load.
LoadOfThisRender(field) ==
    LET none == Loaded(EcommerceAnalyzer, FALSE, {})
    IN  CASE field = "meesho_sales" ->
                 IF files.meesho_sales = None THEN none
                 ELSE load_meesho_data(EcommerceAnalyzer, files.meesho_sales,
                                       files.meesho_returns)
          [] field = "amazon_data" ->
                 IF files.amazon = None THEN none
                 ELSE load_amazon_data(EcommerceAnalyzer, files.amazon)
          [] field = "flipkart_data" ->
                 IF files.flipkart = None THEN none
                 ELSE load_flipkart_data(EcommerceAnalyzer, files.flipkart)

\* The table loaded successfully from this render's file, None when there
\* is no file or its load returned False.
LoadedSuccessfully(field) ==
    LET r == LoadOfThisRender(field)
    IN  IF r.ok THEN r.analyzer[field] ELSE None

\* Every render reaches its load section with an analyzer that has no
\* tables.
C11_StartsWithoutTables ==
    pc = "load_meesho" => analyzer = EcommerceAnalyzer

\* A render in which no file loads successfully stops at the upload prompt
\* with no analysis function called.
C11_StopsWhenNothingLoaded ==
    (/\ pc \notin {"main", "load_meesho", "load_amazon", "load_flipkart",
                   "check_loaded"}
     /\ \A field \in AnalysedTables : LoadedSuccessfully(field) = None) =>
        /\ pc = "stopped"
        /\ calls = <<>>

\* When the analysis starts, each table of the analyzer is the one loaded
\* successfully from this render's file, and None when there is no such
\* file or its load failed.
C11_AnalysedAreLoaded ==
    pc = "tab1" =>
        \A field \in AnalysedTables :
            analyzer[field] = LoadedSuccessfully(field)

\* C11: over any sequence of renders, the tables analysed in a render are
\* exactly those loaded successfully from the files of that same render:
\* the render starts from an analyzer with no tables, a table is analysed
\* only if this render's file loaded successfully, and a render in which
\* no file loads successfully stops before any analysis.
C11_AnalysedOnlyFromThisRender ==
    /\ C11_StartsWithoutTables
    /\ C11_StopsWhenNothingLoaded
    /\ C11_AnalysedAreLoaded
====
